---- MODULE Spec2Model ----
(***************************************************************************)
(* Model of BreezNode (src/rust/breez_godot/src/lib.rs): a Godot node that *)
(* wraps a Breez Spark SDK session kept in Arc<Mutex<Option<BreezSdk>>>.   *)
(* Every #[func] method is one call of a host thread; a call is split at   *)
(* the points where it can block: taking the session mutex and awaiting an *)
(* SDK future inside runtime.block_on.                                     *)
(*                                                                         *)
(* Integers keep the width the code gives them.  An i64 / u64 is a tuple   *)
(* of four 16-bit limbs <<l3, l2, l1, l0>> (most significant first, two's  *)
(* complement for i64); a u32 is a tuple of two limbs <<l1, l0>>.          *)
(***************************************************************************)
EXTENDS Integers, Sequences, FiniteSets, TLC

VARIABLES sdk, lock, pc, op, sdkcall, trace, ret, calls

vars == <<sdk, lock, pc, op, sdkcall, trace, ret, calls>>

\* The host threads that call into the node; the engine's script dispatch
\* runs on the first.
Threads == {"t1", "t2"}

MainThread == "t1"

\* Total number of method calls the host makes in one run.
MaxCalls == 4

----------------------------------------------------------------------------
\* Option<T>

OptNone == [some |-> FALSE]

Some(x) == [some |-> TRUE, val |-> x]

----------------------------------------------------------------------------
\* Fixed-width integers

LimbBase == 2^16

SignLimb == 2^15

I64Zero == <<0, 0, 0, 0>>

\* n in 0 .. 2^16-1 as an i64
I64Small(n) == <<0, 0, 0, n>>

\* -n for n in 1 .. 2^16 as an i64 (two's complement)
I64Neg(n) == <<LimbBase - 1, LimbBase - 1, LimbBase - 1, LimbBase - n>>

\* 2^32 + n for n in 0 .. 2^16-1 as an i64
I64Pow32Plus(n) == <<0, 1, 0, n>>

I64Max == <<SignLimb - 1, LimbBase - 1, LimbBase - 1, LimbBase - 1>>

I64Min == <<SignLimb, 0, 0, 0>>

\* `v > 0` on an i64
IsPositive(v) == v[1] < SignLimb /\ v # I64Zero

\* `v as u32` on an i64: keeps the low 32 bits
AsU32(v) == <<v[3], v[4]>>

\* `v as u64` on an i64: keeps all 64 bits, read as unsigned
AsU64(v) == <<v[1], v[2], v[3], v[4]>>

\* `v as i64` on a u64: keeps all 64 bits, read as two's complement
AsI64(v) == <<v[1], v[2], v[3], v[4]>>

----------------------------------------------------------------------------
\* Inputs the host passes

Networks == {"mainnet", "regtest", "invalid", "Mainnet"}

Credentials ==
    { [mnemonic |-> "abandon ... about", api_key |-> "key-a", storage_dir |-> "user://a"],
      [mnemonic |-> "zoo ... wrong", api_key |-> "", storage_dir |-> "user://b"] }

Timeouts == {I64Min, I64Zero, I64Small(30), I64Pow32Plus(0)}

Amounts == {I64Neg(5), I64Zero, I64Small(1000), I64Pow32Plus(1000)}

Offsets == {I64Neg(5), I64Zero, I64Small(10), I64Pow32Plus(0)}

Limits == {I64Neg(5), I64Zero, I64Small(20)}

MaxFees == {I64Neg(5), I64Zero, I64Small(500), I64Max}

Vouts == {I64Small(1)}

Invoices == {"lnbc10u1..."}

Descriptions == {"sword"}

Txids == {"ab12..."}

\* The arguments a single calling thread is given: every edge of the widths.
WideInputs ==
    [networks |-> Networks, credentials |-> Credentials, timeouts |-> Timeouts,
     amounts |-> Amounts, offsets |-> Offsets, limits |-> Limits,
     max_fees |-> MaxFees]

\* The arguments two racing threads are given: one unset and one set value.
NarrowInputs ==
    [networks |-> {"regtest", "invalid"},
     credentials |-> {CHOOSE c \in Credentials : c.api_key = "key-a"},
     timeouts |-> {I64Zero, I64Small(30)},
     amounts |-> {I64Zero, I64Small(1000)},
     offsets |-> {I64Zero},
     limits |-> {I64Small(20)},
     max_fees |-> {I64Small(500)}]

----------------------------------------------------------------------------
\* Requests built from the host's arguments

\* Variant: an unknown network name falls back to mainnet.
NetworkTypeLenient(network) ==
    CASE network = "regtest" -> Some("Regtest")
      [] OTHER -> Some("Mainnet")

\* match network_str.as_str() { "mainnet" => .., "regtest" => .., _ => Err }
NetworkType(network) ==
    CASE network = "mainnet" -> Some("Mainnet")
      [] network = "regtest" -> Some("Regtest")
      [] OTHER -> OptNone

ConnectRequest(network_type, cred) ==
    [config |-> [network |-> network_type, api_key |-> Some(cred.api_key)],
     seed |-> [mnemonic |-> cred.mnemonic, passphrase |-> OptNone],
     storage_dir |-> cred.storage_dir]

\* let amount = if amount_sats > 0 { Some(amount_sats as u64) } else { None }
InvoiceAmount(amount_sats) ==
    IF IsPositive(amount_sats) THEN Some(AsU64(amount_sats)) ELSE OptNone

\* let options = if timeout_secs > 0 { Some(Bolt11Invoice {..}) } else { None }
SendOptions(timeout_secs) ==
    IF IsPositive(timeout_secs)
    THEN Some([variant |-> "Bolt11Invoice",
               prefer_spark |-> FALSE,
               completion_timeout_secs |-> Some(AsU32(timeout_secs))])
    ELSE OptNone

\* Variant: the send is built from a response rebuilt from the invoice, not
\* from the one the prepare call returned.
SendPaymentRequestStale(prepare_response, timeout_secs) ==
    [prepare_response |->
        [payment_request |-> prepare_response.payment_request, fee_sats |-> 1],
     options |-> SendOptions(timeout_secs)]

SendPaymentRequest(prepare_response, timeout_secs) ==
    [prepare_response |-> prepare_response, options |-> SendOptions(timeout_secs)]

\* if offset > 0 { Some(offset as u32) } else { None }
PageBound(v) == IF IsPositive(v) THEN Some(AsU32(v)) ELSE OptNone

ListPaymentsRequest(offset, limit) ==
    [offset |-> PageBound(offset), limit |-> PageBound(limit)]

\* let max_fee = if max_fee_sats > 0 { Some(Fee::Fixed {..}) } else { None }
ClaimMaxFee(max_fee_sats) ==
    IF IsPositive(max_fee_sats)
    THEN Some([variant |-> "Fixed", amount |-> AsU64(max_fee_sats)])
    ELSE OptNone

ClaimDepositRequest(txid, vout, max_fee_sats) ==
    [txid |-> txid, vout |-> AsU32(vout), max_fee |-> ClaimMaxFee(max_fee_sats)]

SessionOps ==
    {"get_balance", "get_bitcoin_address", "create_invoice", "pay_invoice",
     "get_spark_address", "sync_wallet", "list_payments",
     "list_unclaimed_deposits", "claim_deposit"}

\* The SDK call a session-dependent method issues first, once it holds the
\* guard and has found a session.
FirstCall(o) ==
    CASE o.name = "get_balance" ->
           [kind |-> "get_info", req |-> [ensure_synced |-> Some(TRUE)]]
      [] o.name = "get_bitcoin_address" ->
           [kind |-> "receive_payment",
            req |-> [payment_method |-> [variant |-> "BitcoinAddress"]]]
      [] o.name = "create_invoice" ->
           [kind |-> "receive_payment",
            req |-> [payment_method |->
                       [variant |-> "Bolt11Invoice",
                        description |-> o.description,
                        amount_sats |-> InvoiceAmount(o.amount_sats)]]]
      [] o.name = "pay_invoice" ->
           [kind |-> "prepare_send_payment",
            req |-> [payment_request |-> o.bolt11, amount_sats |-> OptNone]]
      [] o.name = "get_spark_address" ->
           [kind |-> "receive_payment",
            req |-> [payment_method |-> [variant |-> "SparkAddress"]]]
      [] o.name = "sync_wallet" ->
           [kind |-> "sync_wallet", req |-> [unit |-> TRUE]]
      [] o.name = "list_payments" ->
           [kind |-> "list_payments",
            req |-> ListPaymentsRequest(o.offset, o.limit)]
      [] o.name = "list_unclaimed_deposits" ->
           [kind |-> "list_unclaimed_deposits", req |-> [unit |-> TRUE]]
      [] o.name = "claim_deposit" ->
           [kind |-> "claim_deposit",
            req |-> ClaimDepositRequest(o.txid, o.vout, o.max_fee_sats)]

----------------------------------------------------------------------------
\* The SDK collaborator: what a call may resolve to

SdkError == [error |-> "SdkError"]

Payment1 ==
    [id |-> "pay-1", amount |-> <<0, 0, 0, 1000>>, fees |-> <<0, 0, 0, 3>>,
     timestamp |-> <<0, 0, 26000, 0>>, status |-> "completed",
     payment_type |-> "send", method |-> "lightning"]

Deposit1 == [txid |-> "ab12...", vout |-> <<0, 1>>, amount_sats |-> <<0, 0, 0, 5000>>]

\* The Ok values an SDK call of this kind may resolve to.
SdkOk(kind, req) ==
    CASE kind = "get_info" ->
           { [balance_sats |-> <<0, 0, 0, 1500>>] }
      [] kind = "receive_payment" ->
           { [payment_request |->
                CASE req.payment_method.variant = "BitcoinAddress" -> "bc1q..."
                  [] req.payment_method.variant = "Bolt11Invoice" -> "lnbc..."
                  [] OTHER -> "sp1..."] }
      [] kind = "prepare_send_payment" ->
           { [payment_request |-> req.payment_request, fee_sats |-> f] : f \in {1, 2} }
      [] kind = "send_payment" -> { [payment |-> Payment1] }
      [] kind = "sync_wallet" -> { [unit |-> TRUE] }
      [] kind = "list_payments" -> { [payments |-> <<>>], [payments |-> <<Payment1>>] }
      [] kind = "list_unclaimed_deposits" ->
           { [deposits |-> <<>>], [deposits |-> <<Deposit1>>] }
      [] kind = "claim_deposit" -> { [payment |-> Payment1] }

----------------------------------------------------------------------------
\* Values returned to the host

PaymentDict(p) ==
    [id |-> p.id, amount |-> AsI64(p.amount), fees |-> AsI64(p.fees),
     timestamp |-> AsI64(p.timestamp), status |-> p.status,
     payment_type |-> p.payment_type, method |-> p.method]

DepositDict(d) ==
    [txid |-> d.txid, vout |-> d.vout, amount_sats |-> AsI64(d.amount_sats)]

\* Godot values, tagged with their type: i64, GString, bool, Dictionary,
\* Array<Dictionary>, and the value of a method that returns nothing.
GInt(v) == [i64 |-> v]

GStr(s) == [gstring |-> s]

GBool(b) == [bool |-> b]

GDict(d) == [dict |-> d]

GArray(a) == [array |-> a]

GNil == [nil |-> TRUE]

\* The return value when the method's last SDK call resolved Ok(resp).
OkReturn(name, resp) ==
    CASE name = "get_balance" -> GInt(AsI64(resp.balance_sats))
      [] name \in {"get_bitcoin_address", "create_invoice", "get_spark_address"} ->
           GStr(resp.payment_request)
      [] name = "pay_invoice" ->
           GDict([success |-> TRUE, payment_id |-> resp.payment.id,
                  amount |-> AsI64(resp.payment.amount)])
      [] name = "sync_wallet" -> GBool(TRUE)
      [] name = "list_payments" ->
           GArray([i \in 1..Len(resp.payments) |-> PaymentDict(resp.payments[i])])
      [] name = "list_unclaimed_deposits" ->
           GArray([i \in 1..Len(resp.deposits) |-> DepositDict(resp.deposits[i])])
      [] name = "claim_deposit" ->
           GDict([success |-> TRUE, payment_id |-> resp.payment.id])

\* The text of the Err the async block yields.
ErrText(kind, name) ==
    CASE kind = "none" -> "SDK not initialized"
      [] kind = "get_info" -> "Failed to get balance"
      [] kind = "receive_payment" /\ name = "get_bitcoin_address" -> "Failed to get address"
      [] kind = "receive_payment" /\ name = "create_invoice" -> "Failed to create invoice"
      [] kind = "receive_payment" -> "Failed to get Spark address"
      [] kind = "prepare_send_payment" -> "Failed to prepare payment"
      [] kind = "send_payment" -> "Payment failed"
      [] kind = "sync_wallet" -> "Failed to sync"
      [] kind = "list_payments" -> "Failed to list payments"
      [] kind = "list_unclaimed_deposits" -> "Failed to list deposits"
      [] kind = "claim_deposit" -> "Failed to claim deposit"

\* The return value when the method found no session (kind = "none") or its
\* SDK call of that kind resolved to an error.
ErrReturn(name, kind) ==
    CASE name = "get_balance" -> GInt(I64Zero)
      [] name \in {"get_bitcoin_address", "create_invoice", "get_spark_address"} -> GStr("")
      [] name \in {"pay_invoice", "claim_deposit"} ->
           GDict([success |-> FALSE, error |-> ErrText(kind, name)])
      [] name = "sync_wallet" -> GBool(FALSE)
      [] name \in {"list_payments", "list_unclaimed_deposits"} -> GArray(<<>>)

----------------------------------------------------------------------------
\* State
\*   sdk      the Option<BreezSdk> inside the mutex; a session is named by
\*            the number of the connect_sdk call that created it
\*   lock     the thread holding the MutexGuard, or "free"
\*   pc       where each thread is inside its current method
\*   op       the method a thread is running, with its arguments
\*   sdkcall  the SDK future a thread is blocked on
\*   trace    the SDK calls of the current method that have resolved
\*   ret      the value the current method returns
\*   calls    number of method calls made so far

NoOp == [name |-> "none"]

NoCall == [kind |-> "none"]

NoRet == [pending |-> TRUE]

Init ==
    /\ sdk = OptNone
    /\ lock = "free"
    /\ pc = [t \in Threads |-> "idle"]
    /\ op = [t \in Threads |-> NoOp]
    /\ sdkcall = [t \in Threads |-> NoCall]
    /\ trace = [t \in Threads |-> <<>>]
    /\ ret = [t \in Threads |-> NoRet]
    /\ calls = 0

\* Variant: the presence check is skipped.
HasSessionAlways(h) == TRUE

\* `if let Some(sdk) = sdk_guard.as_ref()` / `.is_some()`
HasSession(h) == h.some

\* Variant: the guard is a temporary, dropped before the SDK call is awaited.
GuardNotKept(t) == "free"

\* `let sdk_guard = sdk_arc.lock().unwrap();` bound for the whole async block:
\* the thread keeps the guard while it awaits the SDK.
GuardHeld(t) == t

\* Variant: the guard is leaked (mem::forget) when the async block ends.
GuardLeaked(l) == l

\* The guard is dropped when the async block ends.
GuardDropped(l) == "free"

\* Variant: disconnect leaves the handle in place.
DisconnectedKeep(h) == h

\* `if sdk_guard.is_some() { *sdk_guard = None; }`
Disconnected(h) == IF h.some THEN OptNone ELSE h

\* A thread that is not inside a method may call one.
CanCall(t) == pc[t] = "idle" /\ calls < MaxCalls

\* The host enters a method that starts by locking the mutex.
Enter(t, o) ==
    /\ calls' = calls + 1
    /\ op' = [op EXCEPT ![t] = o]
    /\ pc' = [pc EXCEPT ![t] = "lock_wait"]
    /\ UNCHANGED <<sdk, lock, sdkcall, trace, ret>>

\* connect_sdk up to its first await: the network name is matched, and for a
\* known network the SDK connect is issued.  The mutex is not touched.
ConnectSdk(t, in) ==
    \E network \in in.networks, cred \in in.credentials :
        /\ CanCall(t)
        /\ calls' = calls + 1
        /\ op' = [op EXCEPT ![t] = [name |-> "connect_sdk", network |-> network,
                                    cred |-> cred, id |-> calls + 1]]
        /\ LET nt == NetworkType(network) IN
           IF nt.some
           THEN /\ pc' = [pc EXCEPT ![t] = "connect_await"]
                /\ sdkcall' = [sdkcall EXCEPT ![t] =
                                 [kind |-> "connect", req |-> ConnectRequest(nt.val, cred)]]
                /\ ret' = ret
           ELSE /\ pc' = [pc EXCEPT ![t] = "ret"]
                /\ ret' = [ret EXCEPT ![t] = GBool(FALSE)]
                /\ sdkcall' = sdkcall
        /\ UNCHANGED <<sdk, lock, trace>>

\* Variant: a failed SDK connect resets the stored handle.
ConnectResolveReset(t) ==
    /\ pc[t] = "connect_await"
    /\ sdkcall' = [sdkcall EXCEPT ![t] = NoCall]
    /\ \/ /\ trace' = [trace EXCEPT ![t] =
                         Append(@, [kind |-> "connect", req |-> sdkcall[t].req,
                                    ok |-> TRUE, resp |-> [session |-> op[t].id]])]
          /\ pc' = [pc EXCEPT ![t] = "connect_store"]
          /\ ret' = ret
          /\ sdk' = sdk
       \/ /\ trace' = [trace EXCEPT ![t] =
                         Append(@, [kind |-> "connect", req |-> sdkcall[t].req,
                                    ok |-> FALSE, resp |-> SdkError])]
          /\ pc' = [pc EXCEPT ![t] = "ret"]
          /\ ret' = [ret EXCEPT ![t] = GBool(FALSE)]
          /\ sdk' = OptNone
    /\ UNCHANGED <<lock, op, calls>>

\* `connect(..).await` resolves.
ConnectResolve(t) ==
    /\ pc[t] = "connect_await"
    /\ sdkcall' = [sdkcall EXCEPT ![t] = NoCall]
    /\ \/ /\ trace' = [trace EXCEPT ![t] =
                         Append(@, [kind |-> "connect", req |-> sdkcall[t].req,
                                    ok |-> TRUE, resp |-> [session |-> op[t].id]])]
          /\ pc' = [pc EXCEPT ![t] = "connect_store"]
          /\ ret' = ret
       \/ /\ trace' = [trace EXCEPT ![t] =
                         Append(@, [kind |-> "connect", req |-> sdkcall[t].req,
                                    ok |-> FALSE, resp |-> SdkError])]
          /\ pc' = [pc EXCEPT ![t] = "ret"]
          /\ ret' = [ret EXCEPT ![t] = GBool(FALSE)]
    /\ UNCHANGED <<sdk, lock, op, calls>>

\* `*sdk_arc.lock().unwrap() = Some(sdk);` the guard is a temporary of this
\* one statement.
ConnectStore(t) ==
    /\ pc[t] = "connect_store"
    /\ lock = "free"
    /\ sdk' = Some(trace[t][Len(trace[t])].resp.session)
    /\ ret' = [ret EXCEPT ![t] = GBool(TRUE)]
    /\ pc' = [pc EXCEPT ![t] = "ret"]
    /\ UNCHANGED <<lock, op, sdkcall, trace, calls>>

GetBalance(t) ==
    /\ CanCall(t)
    /\ Enter(t, [name |-> "get_balance"])

GetBitcoinAddress(t) ==
    /\ CanCall(t)
    /\ Enter(t, [name |-> "get_bitcoin_address"])

CreateInvoice(t, in) ==
    \E a \in in.amounts, d \in Descriptions :
        /\ CanCall(t)
        /\ Enter(t, [name |-> "create_invoice", amount_sats |-> a, description |-> d])

PayInvoice(t, in) ==
    \E b \in Invoices, s \in in.timeouts :
        /\ CanCall(t)
        /\ Enter(t, [name |-> "pay_invoice", bolt11 |-> b, timeout_secs |-> s])

GetSparkAddress(t) ==
    /\ CanCall(t)
    /\ Enter(t, [name |-> "get_spark_address"])

IsSdkConnected(t) ==
    /\ CanCall(t)
    /\ Enter(t, [name |-> "is_sdk_connected"])

DisconnectBreez(t) ==
    /\ CanCall(t)
    /\ Enter(t, [name |-> "disconnect_breez"])

SyncWallet(t) ==
    /\ CanCall(t)
    /\ Enter(t, [name |-> "sync_wallet"])

ListPayments(t, in) ==
    \E o \in in.offsets, l \in in.limits :
        /\ CanCall(t)
        /\ Enter(t, [name |-> "list_payments", offset |-> o, limit |-> l])

ListUnclaimedDeposits(t) ==
    /\ CanCall(t)
    /\ Enter(t, [name |-> "list_unclaimed_deposits"])

ClaimDeposit(t, in) ==
    \E x \in Txids, v \in Vouts, f \in in.max_fees :
        /\ CanCall(t)
        /\ Enter(t, [name |-> "claim_deposit", txid |-> x, vout |-> v, max_fee_sats |-> f])

\* A session-dependent method takes the mutex and looks for the session:
\* with one it issues its first SDK call and keeps the guard; without one the
\* async block ends at once with the "SDK not initialized" value.
LockAndCall(t) ==
    /\ pc[t] = "lock_wait"
    /\ op[t].name \in SessionOps
    /\ lock = "free"
    /\ IF HasSession(sdk)
       THEN /\ lock' = GuardHeld(t)
            /\ sdkcall' = [sdkcall EXCEPT ![t] =
                             [kind |-> FirstCall(op[t]).kind,
                              req |-> FirstCall(op[t]).req,
                              session |-> sdk]]
            /\ pc' = [pc EXCEPT ![t] = "await"]
            /\ ret' = ret
       ELSE /\ lock' = lock
            /\ sdkcall' = sdkcall
            /\ pc' = [pc EXCEPT ![t] = "ret"]
            /\ ret' = [ret EXCEPT ![t] = ErrReturn(op[t].name, "none")]
    /\ UNCHANGED <<sdk, op, trace, calls>>

\* The SDK future a session-dependent method awaits resolves.  pay_invoice
\* goes on from an Ok prepare to the send; every other outcome ends the
\* async block, which drops the guard.
SdkResolve(t) ==
    /\ pc[t] = "await"
    /\ LET c == sdkcall[t] IN
       \/ \E resp \in SdkOk(c.kind, c.req) :
            /\ trace' = [trace EXCEPT ![t] =
                           Append(@, [kind |-> c.kind, req |-> c.req, session |-> c.session,
                                      ok |-> TRUE, resp |-> resp])]
            /\ IF c.kind = "prepare_send_payment"
               THEN /\ sdkcall' = [sdkcall EXCEPT ![t] =
                                     [kind |-> "send_payment",
                                      req |-> SendPaymentRequest(resp, op[t].timeout_secs),
                                      session |-> c.session]]
                    /\ UNCHANGED <<pc, ret, lock>>
               ELSE /\ sdkcall' = [sdkcall EXCEPT ![t] = NoCall]
                    /\ pc' = [pc EXCEPT ![t] = "ret"]
                    /\ ret' = [ret EXCEPT ![t] = OkReturn(op[t].name, resp)]
                    /\ lock' = GuardDropped(lock)
       \/ /\ trace' = [trace EXCEPT ![t] =
                         Append(@, [kind |-> c.kind, req |-> c.req, session |-> c.session,
                                    ok |-> FALSE, resp |-> SdkError])]
          /\ sdkcall' = [sdkcall EXCEPT ![t] = NoCall]
          /\ pc' = [pc EXCEPT ![t] = "ret"]
          /\ ret' = [ret EXCEPT ![t] = ErrReturn(op[t].name, c.kind)]
          /\ lock' = GuardDropped(lock)
    /\ UNCHANGED <<sdk, op, calls>>

\* Variant: the check takes the session out of the mutex (`.take().is_some()`).
IsSdkConnectedTakes(t) ==
    /\ pc[t] = "lock_wait"
    /\ op[t].name = "is_sdk_connected"
    /\ lock = "free"
    /\ ret' = [ret EXCEPT ![t] = GBool(sdk.some)]
    /\ sdk' = OptNone
    /\ pc' = [pc EXCEPT ![t] = "ret"]
    /\ UNCHANGED <<lock, op, sdkcall, trace, calls>>

\* `self.sdk.lock().unwrap().is_some()`
IsSdkConnectedLocked(t) ==
    /\ pc[t] = "lock_wait"
    /\ op[t].name = "is_sdk_connected"
    /\ lock = "free"
    /\ ret' = [ret EXCEPT ![t] = GBool(HasSession(sdk))]
    /\ pc' = [pc EXCEPT ![t] = "ret"]
    /\ UNCHANGED <<sdk, lock, op, sdkcall, trace, calls>>

\* disconnect_breez once it has the mutex; the guard is dropped on return.
DisconnectLocked(t) ==
    /\ pc[t] = "lock_wait"
    /\ op[t].name = "disconnect_breez"
    /\ lock = "free"
    /\ sdk' = Disconnected(sdk)
    /\ ret' = [ret EXCEPT ![t] = GNil]
    /\ pc' = [pc EXCEPT ![t] = "ret"]
    /\ UNCHANGED <<lock, op, sdkcall, trace, calls>>

\* The method returns to the host, which takes the value.
Return(t) ==
    /\ pc[t] = "ret"
    /\ pc' = [pc EXCEPT ![t] = "idle"]
    /\ op' = [op EXCEPT ![t] = NoOp]
    /\ ret' = [ret EXCEPT ![t] = NoRet]
    /\ trace' = [trace EXCEPT ![t] = <<>>]
    /\ UNCHANGED <<sdk, lock, sdkcall, calls>>

\* The steps a thread takes by itself once a method is running.
Progress(t) ==
    \/ ConnectResolve(t)
    \/ SdkResolve(t)
    \/ Return(t)

\* The steps that take the mutex.
TakeLock(t) ==
    \/ ConnectStore(t)
    \/ LockAndCall(t)
    \/ IsSdkConnectedLocked(t)
    \/ DisconnectLocked(t)

\* The host calls one of the node's methods.
Method(t, in) ==
    \/ ConnectSdk(t, in)
    \/ GetBalance(t)
    \/ GetBitcoinAddress(t)
    \/ CreateInvoice(t, in)
    \/ PayInvoice(t, in)
    \/ GetSparkAddress(t)
    \/ IsSdkConnected(t)
    \/ DisconnectBreez(t)
    \/ SyncWallet(t)
    \/ ListPayments(t, in)
    \/ ListUnclaimedDeposits(t)
    \/ ClaimDeposit(t, in)

\* Two host threads call the node concurrently.
Next ==
    \E t \in Threads :
        \/ Method(t, NarrowInputs)
        \/ Progress(t)
        \/ TakeLock(t)

Spec == Init /\ [][Next]_vars

\* Every SDK future resolves, every return happens, and a thread that keeps
\* finding the mutex free gets it.
Fairness ==
    \A t \in Threads : WF_vars(Progress(t)) /\ SF_vars(TakeLock(t))

LiveSpec == Spec /\ Fairness

\* The engine's single calling thread calls the node.
NextSeq ==
    \/ Method(MainThread, WideInputs)
    \/ Progress(MainThread)
    \/ TakeLock(MainThread)

SeqSpec == Init /\ [][NextSeq]_vars

----------------------------------------------------------------------------
\* Properties

\* Thread t takes the step that ends in `to`, from `from`.
Moves(t, from, to) == pc[t] = from /\ pc'[t] = to

\* An SDK call of a session-dependent method (not the SDK connect).
SessionCall(c) == c.kind \notin {"none", "connect"}

\* C1: the handle is absent at construction; it becomes present only in the
\* step in which a connect_sdk call with a valid network name, whose SDK
\* connect succeeded, stores its session; every disconnect_breez leaves it
\* absent, whether or not it was present; and is_sdk_connected reports
\* exactly the presence of the handle.
C1_ConnectedOnlyAfterConnect ==
    /\ ~sdk.some
    /\ [][ (~sdk.some /\ sdk'.some) =>
             \E t \in Threads :
                /\ Moves(t, "connect_store", "ret")
                /\ op[t].name = "connect_sdk"
                /\ op[t].network \in {"mainnet", "regtest"}
                /\ trace[t] # <<>>
                /\ trace[t][Len(trace[t])].kind = "connect"
                /\ trace[t][Len(trace[t])].ok
                /\ sdk' = Some(op[t].id) ]_vars
    /\ [][ \A t \in Threads :
             (Moves(t, "lock_wait", "ret") /\ op[t].name = "disconnect_breez")
                => ~sdk'.some ]_vars
    /\ [][ \A t \in Threads :
             (Moves(t, "lock_wait", "ret") /\ op[t].name = "is_sdk_connected")
                => ret'[t] = GBool(sdk.some) /\ sdk' = sdk ]_vars

\* C1 witness: one thread saw the session present, and the other has since
\* disconnected it.
C1_Witness ==
    \E t, u \in Threads :
        /\ pc[t] = "ret" /\ op[t].name = "disconnect_breez" /\ ~sdk.some
        /\ pc[u] = "ret" /\ op[u].name = "is_sdk_connected" /\ ret[u] = GBool(TRUE)

\* C2: a connect_sdk call whose network is neither "mainnet" nor "regtest"
\* ends in the step that makes it: it returns false, has no SDK call in
\* flight or resolved, and leaves the handle as it was.
C2_InvalidNetworkFailsFast ==
    /\ [](\A t \in Threads :
            (op[t].name = "connect_sdk" /\ op[t].network \notin {"mainnet", "regtest"})
               => /\ pc[t] = "ret"
                  /\ ret[t] = GBool(FALSE)
                  /\ sdkcall[t] = NoCall
                  /\ trace[t] = <<>>)
    /\ [][ \A t \in Threads :
             (pc'[t] # pc[t] /\ op'[t].name = "connect_sdk"
                /\ op'[t].network \notin {"mainnet", "regtest"})
                => sdk' = sdk ]_vars

\* C2 witness: a connect with a wrongly-cased network name has failed while
\* a session is present.
C2_Witness ==
    \E t \in Threads :
        /\ pc[t] = "ret" /\ op[t].name = "connect_sdk" /\ op[t].network = "Mainnet"
        /\ op[t].cred.api_key = "" /\ ret[t] = GBool(FALSE) /\ sdk.some

\* The documented empty value of a session-dependent method.
IsSentinel(name, r) ==
    CASE name = "get_balance" -> r = GInt(<<0, 0, 0, 0>>)
      [] name \in {"get_bitcoin_address", "create_invoice", "get_spark_address"} ->
           r = GStr("")
      [] name \in {"pay_invoice", "claim_deposit"} ->
           r = GDict([success |-> FALSE, error |-> "SDK not initialized"])
      [] name = "sync_wallet" -> r = GBool(FALSE)
      [] name \in {"list_payments", "list_unclaimed_deposits"} -> r = GArray(<<>>)
      [] OTHER -> FALSE

\* C3: a session-dependent method that takes the mutex while the handle is
\* absent returns its empty value, issues no SDK call, keeps no lock and
\* leaves the handle absent.
C3_AbsentSessionSentinel ==
    [][ \A t \in Threads :
          (pc[t] = "lock_wait" /\ pc'[t] # "lock_wait" /\ op[t].name \in SessionOps
             /\ ~sdk.some)
             => /\ pc'[t] = "ret"
                /\ IsSentinel(op[t].name, ret'[t])
                /\ sdkcall'[t] = NoCall
                /\ trace'[t] = <<>>
                /\ lock' = lock
                /\ ~sdk'.some ]_vars

\* C3 witness: pay_invoice has returned with no session, having issued no
\* SDK call, after an earlier session was disconnected.
C3_Witness ==
    \E t \in Threads :
        /\ pc[t] = "ret" /\ op[t].name = "pay_invoice" /\ trace[t] = <<>>
        /\ ~sdk.some /\ calls >= 3

\* C4 as claimed: every SDK call in flight, the SDK connect included, is
\* made under the session lock, so at most one is in flight.
C4_AllSdkCallsUnderLock ==
    /\ \A t \in Threads : sdkcall[t] # NoCall => lock = t
    /\ Cardinality({t \in Threads : sdkcall[t] # NoCall}) <= 1

\* C4 amended: every SDK call of a session-dependent method is made under
\* the session lock, so at most one of them is in flight and the handle is
\* neither set nor cleared while one is; the SDK connect of connect_sdk is
\* made without the lock.
C4_SessionCallsUnderLock ==
    /\ [](\A t \in Threads : SessionCall(sdkcall[t]) => lock = t)
    /\ [](Cardinality({t \in Threads : SessionCall(sdkcall[t])}) <= 1)
    /\ [](\A t \in Threads : sdkcall[t].kind = "connect" => lock # t)
    /\ [][ sdk' # sdk => \A t \in Threads : ~SessionCall(sdkcall[t]) ]_vars

\* C4 witness: a send_payment is in flight under the lock while the other
\* thread's disconnect_breez waits for the lock.
C4_Witness ==
    \E t, u \in Threads :
        /\ sdkcall[t].kind = "send_payment" /\ lock = t
        /\ pc[u] = "lock_wait" /\ op[u].name = "disconnect_breez"

\* C5 as claimed: a pending is_sdk_connected can always return at once,
\* whatever SDK call is in flight.
C5_NeverWaits ==
    \A t \in Threads :
        (pc[t] = "lock_wait" /\ op[t].name = "is_sdk_connected")
           => ENABLED IsSdkConnectedLocked(t)

\* C5 amended: is_sdk_connected reports the presence of the handle, issues
\* no SDK call and leaves the handle as it is; it can return at once unless
\* a session-dependent SDK call of another thread is in flight, for which it
\* waits; it never waits for an SDK connect.
C5_WaitsOnlyForSessionCalls ==
    /\ [](\A t \in Threads :
            (pc[t] = "lock_wait" /\ op[t].name = "is_sdk_connected")
               => \/ ENABLED IsSdkConnectedLocked(t)
                  \/ \E u \in Threads \ {t} : lock = u /\ SessionCall(sdkcall[u]))
    /\ [][ \A t \in Threads :
             (pc'[t] # pc[t] /\ op'[t].name = "is_sdk_connected")
                => /\ sdk' = sdk
                   /\ sdkcall'[t] = NoCall
                   /\ trace'[t] = <<>>
                   /\ lock' = lock
                   /\ (pc[t] = "lock_wait" => ret'[t] = GBool(sdk.some)) ]_vars

\* C5 witness: is_sdk_connected has returned false while the other thread's
\* SDK connect is still in flight.
C5_Witness ==
    \E t, u \in Threads :
        /\ pc[t] = "ret" /\ op[t].name = "is_sdk_connected" /\ ret[t] = GBool(FALSE)
        /\ sdkcall[u].kind = "connect"

\* the u32 u and the i64 v denote the same number
SameNumberU32(u, v) == v[1] = 0 /\ v[2] = 0 /\ u[1] = v[3] /\ u[2] = v[4]

\* the u64 u and the i64 v denote the same number
SameNumberU64(u, v) == v[1] < SignLimb /\ u = v

\* The optional request field opt carries "absent" for v <= 0 and the
\* number v for v > 0; same(u, v) says that u and v are the same number.
Carries(opt, v, same(_, _)) ==
    IF IsPositive(v) THEN opt.some /\ same(opt.val, v) ELSE ~opt.some

\* C6 as claimed: the send request of pay_invoice has no options when
\* timeout_secs <= 0, and otherwise a completion timeout of exactly
\* timeout_secs seconds with prefer_spark = false.
C6_TimeoutCarriedExactly ==
    \A t \in Threads :
        sdkcall[t].kind = "send_payment" =>
            LET o == sdkcall[t].req.options
                s == op[t].timeout_secs
            IN  IF IsPositive(s)
                THEN /\ o.some
                     /\ o.val.prefer_spark = FALSE
                     /\ o.val.completion_timeout_secs.some
                     /\ SameNumberU32(o.val.completion_timeout_secs.val, s)
                ELSE ~o.some

\* C7 as claimed: create_invoice's amount, list_payments' offset and limit
\* and claim_deposit's fee cap are absent in the request for an argument
\* <= 0 and are exactly the argument for an argument > 0.
C7_OptionalNumbersCarriedExactly ==
    \A t \in Threads :
        LET c == sdkcall[t]
            o == op[t]
        IN  /\ (o.name = "create_invoice" /\ c.kind = "receive_payment")
                  => Carries(c.req.payment_method.amount_sats, o.amount_sats, SameNumberU64)
            /\ c.kind = "list_payments"
                  => /\ Carries(c.req.offset, o.offset, SameNumberU32)
                     /\ Carries(c.req.limit, o.limit, SameNumberU32)
            /\ c.kind = "claim_deposit"
                  => /\ IF IsPositive(o.max_fee_sats)
                        THEN /\ c.req.max_fee.some
                             /\ c.req.max_fee.val.variant = "Fixed"
                             /\ SameNumberU64(c.req.max_fee.val.amount, o.max_fee_sats)
                        ELSE ~c.req.max_fee.some

\* C8: in pay_invoice a send is issued only after the prepare of the same
\* call succeeded, carries that prepare's response and runs on the same
\* session, which is still the stored one; a failed prepare ends the call
\* with a failure record and no send; a success record is returned exactly
\* when both the prepare and the send succeeded.
C8_PayInvoiceTwoPhase ==
    \A t \in Threads :
        op[t].name = "pay_invoice" =>
            LET tr == trace[t]
                c == sdkcall[t]
                SendAfterPrepare(req, session) ==
                    /\ Len(tr) >= 1
                    /\ tr[1].kind = "prepare_send_payment"
                    /\ tr[1].ok
                    /\ tr[1].req.payment_request = op[t].bolt11
                    /\ ~tr[1].req.amount_sats.some
                    /\ req.prepare_response = tr[1].resp
                    /\ session = tr[1].session
            IN  /\ c.kind \in {"none", "prepare_send_payment", "send_payment"}
                /\ c.kind = "prepare_send_payment" => tr = <<>>
                /\ c.kind = "send_payment" =>
                      Len(tr) = 1 /\ SendAfterPrepare(c.req, c.session)
                /\ c.kind # "none" => sdk = c.session /\ lock = t
                /\ \A i \in 1..Len(tr) :
                      /\ tr[i].kind = "send_payment" =>
                            i = 2 /\ SendAfterPrepare(tr[i].req, tr[i].session)
                      /\ tr[i].kind = "prepare_send_payment" => i = 1
                      /\ (tr[i].kind = "prepare_send_payment" /\ ~tr[i].ok) =>
                            /\ Len(tr) = 1
                            /\ pc[t] = "ret"
                            /\ ret[t] = GDict([success |-> FALSE,
                                               error |-> "Failed to prepare payment"])
                /\ pc[t] = "ret" =>
                      /\ ret[t].dict.success
                            <=> (Len(tr) = 2 /\ tr[1].ok /\ tr[2].ok)
                      /\ ret[t].dict.success =>
                            /\ ret[t].dict.payment_id = tr[2].resp.payment.id
                            /\ ret[t].dict.amount = tr[2].resp.payment.amount
                      /\ ~ret[t].dict.success =>
                            DOMAIN ret[t].dict = {"success", "error"}

\* C8 witness: pay_invoice has returned a success record while the other
\* thread's disconnect_breez was waiting for the lock.
C8_Witness ==
    \E t, u \in Threads :
        /\ pc[t] = "ret" /\ op[t].name = "pay_invoice" /\ ret[t].dict.success
        /\ trace[t][1].resp.fee_sats = 2
        /\ op[u].name = "disconnect_breez"

\* C9: the handle changes only in the step in which a connect_sdk call
\* stores its own session, returning true, and in the step in which
\* disconnect_breez clears it; connect_sdk returns true only in such a step.
C9_HandleChangesOnlyByConnectAndDisconnect ==
    /\ [][ sdk' # sdk =>
             \E t \in Threads :
                \/ /\ Moves(t, "connect_store", "ret")
                   /\ op[t].name = "connect_sdk"
                   /\ sdk' = Some(op[t].id)
                   /\ ret'[t] = GBool(TRUE)
                \/ /\ Moves(t, "lock_wait", "ret")
                   /\ op[t].name = "disconnect_breez"
                   /\ ~sdk'.some ]_vars
    /\ [][ \A t \in Threads :
             (pc[t] # "ret" /\ pc'[t] = "ret" /\ op'[t].name = "connect_sdk")
                => (ret'[t] = GBool(TRUE)
                      <=> (pc[t] = "connect_store" /\ sdk' = Some(op[t].id))) ]_vars

\* C9 witness: a connect_sdk whose SDK connect failed has returned false
\* while the session stored earlier is still present, and a session-dependent
\* call of the other thread has failed in the SDK.
C9_Witness ==
    \E t, u \in Threads :
        /\ pc[t] = "ret" /\ op[t].name = "connect_sdk" /\ ret[t] = GBool(FALSE)
        /\ trace[t] # <<>> /\ sdk.some
        /\ pc[u] = "ret" /\ op[u].name \in SessionOps
        /\ trace[u] # <<>> /\ ~trace[u][Len(trace[u])].ok

\* C10: under fair scheduling every call returns; a thread that has
\* returned holds no lock and has no SDK call in flight.
C10_EveryCallReturns ==
    /\ \A t \in Threads : (pc[t] # "idle") ~> (pc[t] = "idle")
    /\ [](\A t \in Threads :
            pc[t] \in {"idle", "ret"} => lock # t /\ sdkcall[t] = NoCall)
    /\ [](lock # "free" => lock \in Threads /\ pc[lock] = "await")

\* C10 witness: a thread waits for the lock the other holds across its SDK
\* call, while all calls of the run have been made.
C10_Witness ==
    \E t, u \in Threads :
        /\ pc[t] = "lock_wait" /\ lock = u /\ pc[u] = "await"
        /\ calls = MaxCalls

====
